---- MODULE Spec2Model ----
(***************************************************************************)
(* lol_alloc: the free-list allocator (FreeListAllocator) over a page      *)
(* grower, modelled at the level of its intrusive linked list; the         *)
(* spin-lock wrapper LockedAllocator around it, step by step for several   *)
(* threads; and the allocators that never free, LeakingAllocator and       *)
(* LeakingPageAllocator, over the linear memory they share.                *)
(*                                                                         *)
(* Addresses are absolute byte addresses, as in the code, where the        *)
(* address of a grown region is previous_page_count * PAGE_SIZE.  The      *)
(* memory holding free-list headers is the function `node`, from the       *)
(* address of a header to its two words (next, size).  A cursor            *)
(* `*mut *mut FreeListNode` is a "slot": either the allocator's free_list  *)
(* cell (HeadSlot) or the next field of the header at an address.          *)
(***************************************************************************)
EXTENDS Integers, Sequences, FiniteSets, Bags, TLC

\* lib.rs: const PAGE_SIZE
PAGE_SIZE == 65536
\* size_of::<FreeListNode>() on wasm32: two 4-byte words
NODE_SIZE == 8
\* usize::MAX as *mut FreeListNode: the greatest address.  TLC's integers end
\* at 2^31 - 1, which stands for usize::MAX here; every address and page
\* count of the model is far below it.
EMPTY_FREE_LIST == 2147483647
\* PageCount(usize::MAX)
ERROR_PAGE_COUNT == 2147483647
\* core::ptr::null_mut()
null_mut == 0

\* Bounds of the model.
\* Pages the grower can hand out before it returns ERROR_PAGE_COUNT.
MaxPages == 2
\* Allocations the caller holds at once.
MaxLive == 2

\* Header-sized blocks the test populates_free_list holds by hand.
HandBlocks == 7

\* Pages the linear memory shared by the leaking allocators can grow by.
MaxMemory == 3
\* Allocations the leaking allocators hand out before the caller stops.
MaxGiven == 3

\* Greatest layout size for which the effective request is computed alone.
MaxSize == 40

\* Page index at which the grower's first region starts: what the first
\* memory_grow returns, the size in pages of the linear memory before it.
\* 0 is a heap extent that starts at address 0, where the first byte of the
\* heap has the address of the null pointer; 1 is a heap above a first page
\* that the allocator does not own.
BasePages == {0, 1}
\* Layouts <<size, align>> the caller asks for: a zero size, a size that is
\* rounded up, an alignment above the header's, a page alignment (with a
\* size of one byte and of none), whole pages, and more than a page.
Layouts ==
    { <<0, 1>>, <<NODE_SIZE + 1, 1>>, <<NODE_SIZE + 1, 2 * NODE_SIZE>>,
      <<1, PAGE_SIZE>>, <<0, PAGE_SIZE>>, <<PAGE_SIZE, 1>>,
      <<PAGE_SIZE + 1, 1>>, <<2 * PAGE_SIZE, 1>> }

\* Threads that call the LockedAllocator.
Threads == {1, 2}
\* Layouts the threads ask for: a size that is rounded up at an alignment
\* above the header's, and two pages, which the grower cannot always give.
LockedLayouts ==
    { <<NODE_SIZE + 1, 2 * NODE_SIZE>>, <<2 * PAGE_SIZE, 1>> }
\* Layouts asked of the leaking allocators: a zero size, a byte, a size that
\* leaves the bump pointer unaligned, a page alignment, a page, and more
\* than a page.
TrivialLayouts ==
    { <<0, 1>>, <<1, 1>>, <<NODE_SIZE + 1, NODE_SIZE>>, <<1, PAGE_SIZE>>,
      <<PAGE_SIZE, 1>>, <<PAGE_SIZE + 1, 1>> }

VARIABLES
    free_list,    \* FreeListAllocator.free_list: address of the first node, or EMPTY_FREE_LIST
    node,         \* memory of the headers of the listed nodes: address -> [next, size]
    used_pages,   \* pages the grower has handed out
    base_page,    \* page index of the grower's first page
    allocations,  \* bag of the caller's live allocations [ptr, size, align]
    last,         \* the last call: its arguments, result and growth calls
    spin,         \* LockedAllocator.spin: the flag of the spin::Mutex, TRUE when locked
    thread,       \* each thread's position in its call of the LockedAllocator
    pages,        \* the linear memory of DefaultGrower: for each page, who appended it
    leaking,      \* LeakingAllocator's fields [used, size], in bytes
    given         \* the allocations of the leaking allocators, in the order of the calls

vars == <<free_list, node, used_pages, base_page, allocations, last,
          spin, thread, pages, leaking, given>>
locked_vars == <<spin, thread>>
trivial_vars == <<pages, leaking, given>>

Max(a, b) == IF a >= b THEN a ELSE b

----------------------------------------------------------------------------
\* Pure helpers of free_list_allocator.rs

\* mutant: a value that is a multiple already goes to the next one
round_up_past(value, increment) ==
    (value + increment) - ((value + increment) % increment)

\* (value + (increment - 1)) & increment.wrapping_neg(), increment a power of two
round_up(value, increment) ==
    (value + (increment - 1)) - ((value + (increment - 1)) % increment)

\* mutant: the value is not masked
multiple_below_unmasked(value, increment) == value

\* value & increment.wrapping_neg(), increment a power of two
multiple_below(value, increment) == value - (value % increment)

\* mutant: the size is not rounded up to a whole number of headers
full_size_unrounded(size) == Max(size, NODE_SIZE)

full_size(size) ==
    LET grown == Max(size, NODE_SIZE)
    IN  round_up(grown, NODE_SIZE)

offset_bytes(ptr, offset) == ptr + offset

----------------------------------------------------------------------------
\* The allocator's memory as a value: st = [free_list, node, used_pages, base_page]

HeadSlot == -1

\* *slot
Load(st, slot) == IF slot = HeadSlot THEN st.free_list ELSE st.node[slot].next

\* *slot = v
Store(st, slot, v) ==
    IF slot = HeadSlot
    THEN [st EXCEPT !.free_list = v]
    ELSE [st EXCEPT !.node = [@ EXCEPT ![slot] = [@ EXCEPT !.next = v]]]

\* (*p).next = n; (*p).size = s, for a header that may be new
WriteNode(st, p, n, s) ==
    [st EXCEPT !.node = (p :> [next |-> n, size |-> s]) @@ @]

\* (*p).size = s for a listed header
SetSize(st, p, s) ==
    [st EXCEPT !.node = [@ EXCEPT ![p] = [@ EXCEPT !.size = s]]]

\* mutant: the pages are counted as handed out before the capacity test
memory_grow_counts_first(st, delta) ==
    IF st.used_pages + delta > MaxPages
    THEN [st |-> [st EXCEPT !.used_pages = @ + delta],
          previous_page_count |-> ERROR_PAGE_COUNT]
    ELSE [st |-> [st EXCEPT !.used_pages = @ + delta],
          previous_page_count |-> st.base_page + st.used_pages]

\* MemoryGrower::memory_grow: the previous page count, or ERROR_PAGE_COUNT
\* with the memory unchanged when the pages are not there (the test grower's
\* used_pages + delta > pages.len(), with MaxPages for pages.len()).
memory_grow(st, delta) ==
    IF st.used_pages + delta > MaxPages
    THEN [st |-> st, previous_page_count |-> ERROR_PAGE_COUNT]
    ELSE [st |-> [st EXCEPT !.used_pages = @ + delta],
          previous_page_count |-> st.base_page + st.used_pages]

----------------------------------------------------------------------------
\* FreeListAllocator::dealloc

\* mutant: the node that becomes the last entry is given one header's size
dealloc_at_end_one_header(st, slot, ptr, size) ==
    Store(WriteNode(st, ptr, EMPTY_FREE_LIST, NODE_SIZE), slot, ptr)

\* *free_list == EMPTY_FREE_LIST: the node becomes the last entry
dealloc_at_end(st, slot, ptr, size) ==
    Store(WriteNode(st, ptr, EMPTY_FREE_LIST, size), slot, ptr)

\* mutant: the node below takes the new node but not the node after it
dealloc_merge_after_drops_upper(st, slot, ptr, size) ==
    LET cur  == Load(st, slot)
        next == st.node[cur].next
    IN  IF next # EMPTY_FREE_LIST /\ offset_bytes(next, st.node[next].size) = ptr
        THEN Store(SetSize(st, next, st.node[next].size + size), slot, next)
        ELSE WriteNode(Store(st, slot, ptr), ptr, next, size + st.node[cur].size)

\* mutant: the node below the merged node is never merged with it
dealloc_merge_after_two_way(st, slot, ptr, size) ==
    LET cur == Load(st, slot)
    IN  WriteNode(Store(st, slot, ptr), ptr, st.node[cur].next,
                  size + st.node[cur].size)

\* *free_list == after_new: merge the new node into the node after it, and
\* into the node before it too when that one ends at ptr
dealloc_merge_after(st, slot, ptr, size) ==
    LET cur      == Load(st, slot)
        new_size == size + st.node[cur].size
        next     == st.node[cur].next
    IN  IF next # EMPTY_FREE_LIST /\ offset_bytes(next, st.node[next].size) = ptr
        THEN Store(SetSize(st, next, st.node[next].size + new_size), slot, next)
        ELSE WriteNode(Store(st, slot, ptr), ptr, next, new_size)

\* mutant: the new node is always linked, never merged onto the node below
dealloc_insert_unmerged(st, slot, ptr, size) ==
    Store(WriteNode(st, ptr, Load(st, slot), size), slot, ptr)

\* *free_list < ptr: merge onto the end of the current node if adjacent,
\* else link a new node in front of it
dealloc_insert(st, slot, ptr, size) ==
    LET cur == Load(st, slot)
    IN  IF offset_bytes(cur, st.node[cur].size) = ptr
        THEN SetSize(st, cur, st.node[cur].size + size)
        ELSE Store(WriteNode(st, ptr, cur, size), slot, ptr)

\* mutant: the node is linked at the cursor where the walk starts, whatever
\* its address
dealloc_loop_at_head(st, slot, ptr, size) ==
    Store(WriteNode(st, ptr, Load(st, slot), size), slot, ptr)

\* the loop of dealloc, from the cursor `slot`
RECURSIVE dealloc_loop(_, _, _, _)
dealloc_loop(st, slot, ptr, size) ==
    LET cur       == Load(st, slot)
        after_new == offset_bytes(ptr, size)
    IN  IF cur = EMPTY_FREE_LIST THEN dealloc_at_end(st, slot, ptr, size)
        ELSE IF cur = after_new THEN dealloc_merge_after(st, slot, ptr, size)
        ELSE IF cur < ptr THEN dealloc_insert(st, slot, ptr, size)
        ELSE dealloc_loop(st, cur, ptr, size)

\* the nodes the loop of dealloc looks at, in the order of the walk
RECURSIVE dealloc_visits(_, _, _, _)
dealloc_visits(st, slot, ptr, size) ==
    LET cur == Load(st, slot)
    IN  IF cur = EMPTY_FREE_LIST THEN <<>>
        ELSE IF cur = offset_bytes(ptr, size) \/ cur < ptr THEN <<cur>>
        ELSE <<cur>> \o dealloc_visits(st, cur, ptr, size)

\* dealloc(ptr, layout), layout = (layout_size, layout_align)
dealloc(st, ptr, layout_size, layout_align) ==
    dealloc_loop(st, HeadSlot, ptr, full_size(layout_size))

----------------------------------------------------------------------------
\* FreeListAllocator::alloc

\* the block at the cursor can hold `size` bytes at `alignment`
block_fits(st, slot, size, alignment) ==
    LET start_of_block == Load(st, slot)
        end_of_block   == start_of_block + st.node[start_of_block].size
    IN  /\ size < end_of_block
        /\ multiple_below(end_of_block - size, alignment) >= start_of_block

\* mutant: the allocation is placed at the head of the block
block_position_head_first(st, slot, size, alignment) ==
    round_up(Load(st, slot), alignment)

\* the position alloc takes in the block at the cursor
block_position(st, slot, size, alignment) ==
    LET start_of_block == Load(st, slot)
        end_of_block   == start_of_block + st.node[start_of_block].size
    IN  multiple_below(end_of_block - size, alignment)

\* mutant: the block keeps its size when the allocation is carved from it
alloc_carve_unshrunk(st, slot, position, size) ==
    LET start_of_block == Load(st, slot)
        end_of_block   == start_of_block + st.node[start_of_block].size
        end_of_used    == position + size
        sliver         == end_of_used < end_of_block
        st1   == IF sliver
                 THEN Store(WriteNode(st, end_of_used, start_of_block,
                                      end_of_block - end_of_used),
                            slot, end_of_used)
                 ELSE st
        slot1 == IF sliver THEN end_of_used ELSE slot
    IN  IF position = start_of_block
        THEN Store(st1, slot1, st1.node[Load(st1, slot1)].next)
        ELSE st1

\* mutant: the space after the allocation is not given a node
alloc_carve_no_sliver(st, slot, position, size) ==
    LET start_of_block == Load(st, slot)
    IN  IF position = start_of_block
        THEN Store(st, slot, st.node[start_of_block].next)
        ELSE SetSize(st, start_of_block, position - start_of_block)

\* carve [position, position + size) out of the block at the cursor: a new
\* node for the space after it, then unlink or shrink the block
alloc_carve(st, slot, position, size) ==
    LET start_of_block == Load(st, slot)
        end_of_block   == start_of_block + st.node[start_of_block].size
        end_of_used    == position + size
        sliver         == end_of_used < end_of_block
        st1   == IF sliver
                 THEN Store(WriteNode(st, end_of_used, start_of_block,
                                      end_of_block - end_of_used),
                            slot, end_of_used)
                 ELSE st
        slot1 == IF sliver THEN end_of_used ELSE slot
    IN  IF position = start_of_block
        THEN Store(st1, slot1, st1.node[Load(st1, slot1)].next)
        ELSE SetSize(st1, Load(st1, slot1), position - start_of_block)

\* the search loop of alloc, from the cursor `slot`
RECURSIVE alloc_search(_, _, _, _)
alloc_search(st, slot, size, alignment) ==
    IF Load(st, slot) = EMPTY_FREE_LIST
    THEN [found |-> FALSE, st |-> st, ptr |-> null_mut]
    ELSE IF block_fits(st, slot, size, alignment)
    THEN LET position == block_position(st, slot, size, alignment)
         IN  [found |-> TRUE, st |-> alloc_carve(st, slot, position, size),
              ptr |-> position]
    ELSE alloc_search(st, Load(st, slot), size, alignment)

\* the nodes the search loop of alloc looks at, in the order of the walk
RECURSIVE alloc_visits(_, _, _, _)
alloc_visits(st, slot, size, alignment) ==
    IF Load(st, slot) = EMPTY_FREE_LIST THEN <<>>
    ELSE IF block_fits(st, slot, size, alignment) THEN <<Load(st, slot)>>
    ELSE <<Load(st, slot)>> \o alloc_visits(st, Load(st, slot), size, alignment)

\* mutant: the page count is taken from the size before it is rounded up
requested_pages_floor(size) == size \div PAGE_SIZE

\* PageCount(requested_bytes / PAGE_SIZE) of alloc's growth call
requested_pages(size) == round_up(size, PAGE_SIZE) \div PAGE_SIZE

\* alloc(layout): the new memory, the returned pointer, and the log of the
\* growth calls it made, <<[delta, previous_page_count], ...>>
RECURSIVE alloc(_, _, _)
alloc(st, layout_size, layout_align) ==
    LET size      == full_size(layout_size)
        alignment == Max(layout_align, NODE_SIZE)
        r         == alloc_search(st, HeadSlot, size, alignment)
    IN  IF r.found
        THEN [st |-> r.st, ptr |-> r.ptr, grows |-> <<>>]
        ELSE LET requested_bytes == round_up(size, PAGE_SIZE)
                 g   == memory_grow(st, requested_pages(size))
                 rec == [delta |-> requested_pages(size),
                         previous_page_count |-> g.previous_page_count]
             IN  IF g.previous_page_count = ERROR_PAGE_COUNT
                 THEN [st |-> g.st, ptr |-> null_mut, grows |-> <<rec>>]
                 ELSE LET ptr == g.previous_page_count * PAGE_SIZE
                          st1 == dealloc(g.st, ptr, requested_bytes, PAGE_SIZE)
                          rr  == alloc(st1, layout_size, layout_align)
                      IN  [st |-> rr.st, ptr |-> rr.ptr,
                           grows |-> <<rec>> \o rr.grows]

----------------------------------------------------------------------------
\* tests::free_list_content: the list as <<[size, offset], ...>>, offsets
\* from the grower's first page

RECURSIVE list_from(_, _)
list_from(st, list) ==
    IF list = EMPTY_FREE_LIST
    THEN <<>>
    ELSE <<[size   |-> st.node[list].size,
            offset |-> list - st.base_page * PAGE_SIZE]>>
         \o list_from(st, st.node[list].next)

free_list_content(st) == list_from(st, st.free_list)

\* addresses of the listed nodes
RECURSIVE listed(_, _)
listed(st, list) ==
    IF list = EMPTY_FREE_LIST THEN {}
    ELSE {list} \cup listed(st, st.node[list].next)

\* the current state as a value
State == [free_list |-> free_list, node |-> node,
          used_pages |-> used_pages, base_page |-> base_page]

\* header memory that is no longer part of the list is the caller's to
\* overwrite: only the listed headers are kept
Listed(st) == [a \in listed(st, st.free_list) |-> st.node[a]]

Content == free_list_content(State)

----------------------------------------------------------------------------
NoCall == [op |-> "none", size |-> 0, align |-> 1, ptr |-> null_mut,
           grows |-> <<>>]

\* a thread that is not in a call
Idle == [pc |-> "idle", guard |-> FALSE, call |-> NoCall, seen |-> <<>>]

\* LockedAllocator::new: the mutex is unlocked and no thread is in a call
Unlocked ==
    /\ spin = FALSE
    /\ thread = [t \in Threads |-> Idle]

\* LeakingAllocator::new, a linear memory of base_page pages that were there
\* before any allocator ran, and nothing handed out
Untouched ==
    /\ pages = [i \in 1 .. base_page |-> "initial"]
    /\ leaking = [used |-> 0, size |-> 0]
    /\ given = <<>>

Init ==
    /\ free_list = EMPTY_FREE_LIST
    /\ node = <<>>
    /\ used_pages = 0
    /\ base_page \in BasePages
    /\ allocations = EmptyBag
    /\ last = NoCall
    /\ Unlocked
    /\ Untouched

\* the caller's allocator.alloc(Layout::from_size_align(size, align)); a
\* null result is not kept
Alloc(size, align) ==
    /\ BagCardinality(allocations) < MaxLive
    /\ LET r == alloc(State, size, align)
       IN  /\ free_list' = r.st.free_list
           /\ node' = Listed(r.st)
           /\ used_pages' = r.st.used_pages
           /\ allocations' =
                IF r.ptr = null_mut THEN allocations
                ELSE allocations (+) SetToBag({[ptr |-> r.ptr, size |-> size, align |-> align]})
           /\ last' = [op |-> "alloc", size |-> size, align |-> align,
                       ptr |-> r.ptr, grows |-> r.grows]
    /\ UNCHANGED <<base_page, locked_vars, trivial_vars>>

\* the caller's allocator.dealloc(a.ptr, a.layout) of a live allocation
Dealloc(a) ==
    /\ BagIn(a, allocations)
    /\ LET st == dealloc(State, a.ptr, a.size, a.align)
       IN  /\ free_list' = st.free_list
           /\ node' = Listed(st)
           /\ used_pages' = st.used_pages
    /\ allocations' = allocations (-) SetToBag({a})
    /\ last' = [op |-> "dealloc", size |-> a.size, align |-> a.align,
                ptr |-> a.ptr, grows |-> <<>>]
    /\ UNCHANGED <<base_page, locked_vars, trivial_vars>>

AllocStep == \E l \in Layouts : Alloc(l[1], l[2])
DeallocStep == \E a \in BagToSet(allocations) : Dealloc(a)

Next == AllocStep \/ DeallocStep

Spec == Init /\ [][Next]_vars

----------------------------------------------------------------------------
\* tests::populates_free_list: an empty allocator over a grower with one used
\* page (the pages are a boxed slice, so not at address 0), and releases of
\* blocks of one header each at offsets that are multiples of NODE_SIZE,
\* which the test makes by hand without an alloc.

Held(base) ==
    { [ptr |-> base * PAGE_SIZE + k * NODE_SIZE, size |-> NODE_SIZE, align |-> 1] :
        k \in 0 .. HandBlocks - 1 }

ScenarioInit ==
    /\ free_list = EMPTY_FREE_LIST
    /\ node = <<>>
    /\ used_pages = 1
    /\ base_page \in BasePages \ {0}
    /\ allocations = SetToBag(Held(base_page))
    /\ last = NoCall
    /\ Unlocked
    /\ Untouched

\* free(FreeListContent {size: NODE_SIZE, offset}), in any order
ScenarioNext == DeallocStep

ScenarioSpec == ScenarioInit /\ [][ScenarioNext]_vars

----------------------------------------------------------------------------
\* LockedAllocator<FreeListAllocator>: `self.spin.lock().alloc(layout)` and
\* `self.spin.lock().dealloc(ptr, layout);`, one thread's call in four steps:
\* the call, spin.lock() taking the flag, the inner allocator's call (which
\* reads the allocator's memory when it starts and has written it when it
\* returns), and the drop of the guard at the end of the statement.

\* mutant: the compare-exchange never succeeds
try_lock_never(flag) == FALSE

\* mutant: the flag is taken whatever its value
try_lock_always(flag) == TRUE

\* spin::Mutex::lock: the compare-exchange from false to true succeeds; a
\* thread whose exchange fails tries again
try_lock(flag) == flag = FALSE

\* mutant: the guard is forgotten and the flag stays as it is
drop_guard_forgotten(flag) == flag

\* drop of the MutexGuard: the flag is stored false
drop_guard(flag) == FALSE

\* allocations a thread's call is about to add
InFlight == { t \in Threads : thread[t].pc # "idle" /\ thread[t].call.op = "alloc" }

\* a thread calls ALLOCATOR.alloc(layout)
LockedCallAlloc(t, size, align) ==
    /\ thread[t].pc = "idle"
    /\ BagCardinality(allocations) + Cardinality(InFlight) < MaxLive
    /\ thread' = [thread EXCEPT ![t] =
                    [pc |-> "lock", guard |-> FALSE, seen |-> <<>>,
                     call |-> [op |-> "alloc", size |-> size, align |-> align,
                               ptr |-> null_mut, grows |-> <<>>]]]
    /\ UNCHANGED <<free_list, node, used_pages, base_page, allocations, last,
                   spin, trivial_vars>>

\* a thread calls ALLOCATOR.dealloc(ptr, layout) for an allocation it holds
LockedCallDealloc(t, a) ==
    /\ thread[t].pc = "idle"
    /\ BagIn(a, allocations) /\ a.owner = t
    /\ allocations' = allocations (-) SetToBag({a})
    /\ thread' = [thread EXCEPT ![t] =
                    [pc |-> "lock", guard |-> FALSE, seen |-> <<>>,
                     call |-> [op |-> "dealloc", size |-> a.size, align |-> a.align,
                               ptr |-> a.ptr, grows |-> <<>>]]]
    /\ UNCHANGED <<free_list, node, used_pages, base_page, last,
                   spin, trivial_vars>>

\* self.spin.lock() returns the guard
LockAcquire(t) ==
    /\ thread[t].pc = "lock"
    /\ try_lock(spin)
    /\ spin' = TRUE
    /\ thread' = [thread EXCEPT ![t] = [@ EXCEPT !.pc = "enter", !.guard = TRUE]]
    /\ UNCHANGED <<free_list, node, used_pages, base_page, allocations, last,
                   trivial_vars>>

\* the inner allocator's alloc or dealloc starts on the memory as it is
InnerEnter(t) ==
    /\ thread[t].pc = "enter"
    /\ thread' = [thread EXCEPT ![t] = [@ EXCEPT !.pc = "inner", !.seen = State]]
    /\ UNCHANGED <<free_list, node, used_pages, base_page, allocations, last,
                   spin, trivial_vars>>

\* the inner allocator's call returns: what it computed from the memory it
\* read is written (the call and its result are bound once, as values)
InnerReturn(t) ==
    /\ thread[t].pc = "inner"
    /\ \E c \in {thread[t].call} :
       \E r \in {IF c.op = "alloc"
                 THEN alloc(thread[t].seen, c.size, c.align)
                 ELSE [st    |-> dealloc(thread[t].seen, c.ptr, c.size, c.align),
                       ptr   |-> c.ptr,
                       grows |-> <<>>]} :
           /\ free_list' = r.st.free_list
           /\ node' = Listed(r.st)
           /\ used_pages' = r.st.used_pages
           /\ thread' = [thread EXCEPT ![t] =
                           [@ EXCEPT !.pc = "unlock", !.seen = <<>>,
                                     !.call = [c EXCEPT !.ptr = r.ptr,
                                                        !.grows = r.grows]]]
    /\ UNCHANGED <<base_page, allocations, last, spin, trivial_vars>>

\* the guard is dropped at the end of the statement and the call returns to
\* the thread, which keeps a non-null result
LockedReturn(t) ==
    /\ thread[t].pc = "unlock"
    /\ spin' = drop_guard(spin)
    /\ thread' = [thread EXCEPT ![t] = Idle]
    /\ last' = thread[t].call
    /\ allocations' =
         IF thread[t].call.op = "alloc" /\ thread[t].call.ptr # null_mut
         THEN allocations (+) SetToBag({[ptr   |-> thread[t].call.ptr,
                                         size  |-> thread[t].call.size,
                                         align |-> thread[t].call.align,
                                         owner |-> t]})
         ELSE allocations
    /\ UNCHANGED <<free_list, node, used_pages, base_page, trivial_vars>>

LockedCallAllocStep ==
    \E t \in Threads : \E l \in LockedLayouts : LockedCallAlloc(t, l[1], l[2])
LockedCallDeallocStep ==
    \E t \in Threads : \E a \in BagToSet(allocations) : LockedCallDealloc(t, a)
LockAcquireStep == \E t \in Threads : LockAcquire(t)
InnerEnterStep == \E t \in Threads : InnerEnter(t)
InnerReturnStep == \E t \in Threads : InnerReturn(t)
LockedReturnStep == \E t \in Threads : LockedReturn(t)

LockedNext ==
    \/ LockedCallAllocStep
    \/ LockedCallDeallocStep
    \/ LockAcquireStep
    \/ InnerEnterStep
    \/ InnerReturnStep
    \/ LockedReturnStep

LockedSpec == Init /\ [][LockedNext]_vars

\* Fair scheduling of the threads: a thread that spins keeps trying the
\* compare-exchange, and a thread that holds the lock goes on with the inner
\* call, which returns, and with the drop of the guard.  Whether an idle
\* thread makes another call is up to the thread.  The weak fairness of
\* InnerReturn(t) is written out: the step is enabled exactly while thread t
\* is inside the inner call.
LockedFairness ==
    \A t \in Threads :
        /\ WF_vars(LockAcquire(t))
        /\ WF_vars(InnerEnter(t))
        /\ ([]<>(thread[t].pc # "inner") \/ []<><<InnerReturn(t)>>_vars)
        /\ WF_vars(LockedReturn(t))

LockedFairSpec == Init /\ [][LockedNext]_vars /\ LockedFairness

----------------------------------------------------------------------------
\* trivial_allocators.rs: LeakingPageAllocator and LeakingAllocator over
\* DefaultGrower, the linear memory of the wasm instance, which other code
\* can grow too.  `pages` holds, for each page of the memory, who appended
\* it; the page with index k is pages[k + 1].

\* core::arch::wasm::memory_grow(0, delta) called by `by`: the previous size
\* in pages, or the failure sentinel with the memory unchanged once the
\* memory has grown by MaxMemory pages
wasm_memory_grow(mem, delta, by) ==
    IF Cardinality({ i \in DOMAIN mem : mem[i] # "initial" }) + delta > MaxMemory
    THEN [pages |-> mem, previous_page_count |-> ERROR_PAGE_COUNT]
    ELSE [pages |-> mem \o [i \in 1 .. delta |-> by],
          previous_page_count |-> Len(mem)]

\* mutant: the pages of a size that is not a whole number of pages are
\* rounded down
page_requested_pages_floor(size) == size \div PAGE_SIZE

\* LeakingPageAllocator::alloc: (layout.size() + PAGE_SIZE - 1) / PAGE_SIZE
page_requested_pages(size) == (size + PAGE_SIZE - 1) \div PAGE_SIZE

\* LeakingPageAllocator::alloc(layout): the memory, the pointer and the
\* growth call
page_alloc(mem, size, align) ==
    LET requested_pages_ == page_requested_pages(size)
        g   == wasm_memory_grow(mem, requested_pages_, "LeakingPageAllocator")
        rec == [delta |-> requested_pages_,
                previous_page_count |-> g.previous_page_count]
    IN  IF g.previous_page_count = ERROR_PAGE_COUNT
        THEN [pages |-> g.pages, ptr |-> null_mut, grows |-> <<rec>>]
        ELSE [pages |-> g.pages, ptr |-> g.previous_page_count * PAGE_SIZE,
              grows |-> <<rec>>]

\* mutant: the pages of a size that is not a whole number of pages are
\* rounded down
leaking_requested_pages_floor(size) == size \div PAGE_SIZE

\* LeakingAllocator::alloc: (requested_size + PAGE_SIZE - 1) / PAGE_SIZE
leaking_requested_pages(size) == (size + PAGE_SIZE - 1) \div PAGE_SIZE

\* mutant: the new pages are taken to follow the old ones
leaking_used_contiguous(used, size, previous_size) == used

\* if previous_size != *size { *used = previous_size; }
leaking_used_after_grow(used, size, previous_size) ==
    IF previous_size # size THEN previous_size ELSE used

\* LeakingAllocator::alloc(layout) on the fields lk = [used, size]: the
\* fields, the memory, the pointer and the growth calls
leaking_alloc(lk, mem, layout_size, layout_align) ==
    LET alignment      == layout_align
        offset         == lk.used % alignment
        used1          == IF offset # 0 THEN lk.used + (alignment - offset) ELSE lk.used
        requested_size == layout_size
        new_total      == used1 + requested_size
    IN  IF new_total > lk.size
        THEN LET requested_pages_ == leaking_requested_pages(requested_size)
                 g   == wasm_memory_grow(mem, requested_pages_, "LeakingAllocator")
                 rec == [delta |-> requested_pages_,
                         previous_page_count |-> g.previous_page_count]
             IN  IF g.previous_page_count = ERROR_PAGE_COUNT
                 THEN [leaking |-> [lk EXCEPT !.used = used1], pages |-> g.pages,
                       ptr |-> null_mut, grows |-> <<rec>>]
                 ELSE LET previous_size == g.previous_page_count * PAGE_SIZE
                          used2 == leaking_used_after_grow(used1, lk.size, previous_size)
                          size2 == previous_size + requested_pages_ * PAGE_SIZE
                      IN  [leaking |-> [used |-> used2 + requested_size, size |-> size2],
                           pages |-> g.pages, ptr |-> used2, grows |-> <<rec>>]
        ELSE [leaking |-> [lk EXCEPT !.used = used1 + requested_size],
              pages |-> mem, ptr |-> used1, grows |-> <<>>]

\* the call's growth call returned the failure sentinel
Failed(r) ==
    r.grows # <<>> /\ r.grows[Len(r.grows)].previous_page_count = ERROR_PAGE_COUNT

\* the caller's LeakingAllocator.alloc(layout); the result of a call that
\* did not fail is kept
LeakingAlloc(size, align) ==
    /\ Len(given) < MaxGiven
    /\ LET r == leaking_alloc(leaking, pages, size, align)
       IN  /\ leaking' = r.leaking
           /\ pages' = r.pages
           /\ given' = IF Failed(r) THEN given
                       ELSE Append(given, [by |-> "LeakingAllocator", ptr |-> r.ptr,
                                           size |-> size, align |-> align])
           /\ last' = [op |-> "leaking_alloc", size |-> size, align |-> align,
                       ptr |-> r.ptr, grows |-> r.grows]
    /\ UNCHANGED <<free_list, node, used_pages, base_page, allocations, locked_vars>>

\* the caller's LeakingPageAllocator.alloc(layout)
PageAlloc(size, align) ==
    /\ Len(given) < MaxGiven
    /\ LET r == page_alloc(pages, size, align)
       IN  /\ pages' = r.pages
           /\ given' = IF Failed(r) THEN given
                       ELSE Append(given, [by |-> "LeakingPageAllocator", ptr |-> r.ptr,
                                           size |-> size, align |-> align])
           /\ last' = [op |-> "page_alloc", size |-> size, align |-> align,
                       ptr |-> r.ptr, grows |-> r.grows]
    /\ UNCHANGED <<free_list, node, used_pages, base_page, allocations, locked_vars,
                   leaking>>

\* dealloc(ptr, layout) of either allocator: the body is empty
TrivialDealloc(a) ==
    /\ last' = [op |-> IF a.by = "LeakingAllocator" THEN "leaking_dealloc"
                       ELSE "page_dealloc",
                size |-> a.size, align |-> a.align, ptr |-> a.ptr, grows |-> <<>>]
    /\ UNCHANGED <<free_list, node, used_pages, base_page, allocations, locked_vars,
                   trivial_vars>>

\* other code of the instance grows the memory, between the allocators' calls
ForeignGrow(delta) ==
    /\ LET g == wasm_memory_grow(pages, delta, "foreign")
       IN  /\ g.previous_page_count # ERROR_PAGE_COUNT
           /\ pages' = g.pages
           /\ last' = [op |-> "memory_grow", size |-> 0, align |-> 1, ptr |-> null_mut,
                       grows |-> <<[delta |-> delta,
                                    previous_page_count |-> g.previous_page_count]>>]
    /\ UNCHANGED <<free_list, node, used_pages, base_page, allocations, locked_vars,
                   leaking, given>>

LeakingAllocStep == \E l \in TrivialLayouts : LeakingAlloc(l[1], l[2])
PageAllocStep == \E l \in TrivialLayouts : PageAlloc(l[1], l[2])
TrivialDeallocStep == \E i \in 1 .. Len(given) : TrivialDealloc(given[i])
ForeignGrowStep == \E delta \in 1 .. MaxMemory : ForeignGrow(delta)

TrivialNext ==
    \/ LeakingAllocStep
    \/ PageAllocStep
    \/ TrivialDeallocStep
    \/ ForeignGrowStep

TrivialSpec == Init /\ [][TrivialNext]_vars

----------------------------------------------------------------------------
\* The effective request alone: what alloc (`let size = full_size(layout);
\* let alignment = layout.align().max(NODE_SIZE);`) and dealloc (`let size =
\* full_size(layout);`) compute from a layout before they touch the list.
\* Layout keeps size + align below isize::MAX, so the sums do not wrap.

\* alignments of the layouts: powers of two up to the page size
Aligns == {1, 2, 4, NODE_SIZE, 2 * NODE_SIZE, PAGE_SIZE}

EffectiveRequest(size, align) ==
    /\ last' = [op |-> "full_size", size |-> size, align |-> align,
                ptr |-> null_mut, grows |-> <<>>,
                alloc_size      |-> full_size(size),
                alloc_alignment |-> Max(align, NODE_SIZE),
                dealloc_size    |-> full_size(size)]
    /\ UNCHANGED <<free_list, node, used_pages, base_page, allocations,
                   locked_vars, trivial_vars>>

EffectiveRequestStep ==
    \E size \in 0 .. MaxSize : \E align \in Aligns : EffectiveRequest(size, align)

FullSizeNext == EffectiveRequestStep

FullSizeSpec == Init /\ [][FullSizeNext]_vars

----------------------------------------------------------------------------
\* Vocabulary of the properties

\* the live allocations, and the bytes [ptr, ptr + need) each one owns
Live == BagToSet(allocations)
need(a) == full_size(a.size)
HeapBytes == used_pages * PAGE_SIZE
AllFreed == allocations = EmptyBag /\ last.op # "none"
Whole == <<[size |-> HeapBytes, offset |-> 0]>>

\* C1: the ranges [p, p + need) of the live allocations are pairwise
\* disjoint, and no address is live twice.
C1_LiveDisjoint ==
    /\ \A a \in Live : CopiesIn(a, allocations) = 1
    /\ \A a, b \in Live :
         a # b => (a.ptr + need(a) <= b.ptr \/ b.ptr + need(b) <= a.ptr)

\* two live allocations that touch, in a heap that has free space too
C1_Witness ==
    /\ Content # <<>>
    /\ \E a, b \in Live : a.ptr + need(a) = b.ptr

\* C2: every non-null address alloc returns is a multiple of the requested
\* alignment and of the header size, from the free list or after growth.
C2_Aligned ==
    /\ \A a \in Live : a.ptr % a.align = 0 /\ a.ptr % NODE_SIZE = 0
    /\ (last.op = "alloc" /\ last.ptr # null_mut)
         => (last.ptr % last.align = 0 /\ last.ptr % NODE_SIZE = 0)

\* an alloc with an alignment above the header's, served from the free list
\* below another live allocation
C2_Witness ==
    /\ last.op = "alloc" /\ last.ptr # null_mut /\ last.grows = <<>>
    /\ last.align = 2 * NODE_SIZE
    /\ \E a \in Live : a.ptr > last.ptr

C4_DescendingApart ==
    \A i \in 1 .. Len(Content) - 1 :
        Content[i + 1].offset + Content[i + 1].size < Content[i].offset

\* a release that left two free regions
C4_Witness == last.op = "dealloc" /\ Len(Content) >= 2

\* C5: every free-list node lies inside the committed heap.
RECURSIVE SumSizes(_)
SumSizes(c) == IF c = <<>> THEN 0 ELSE Head(c).size + SumSizes(Tail(c))

C5_WithinHeap ==
    /\ \A i \in 1 .. Len(Content) :
         Content[i].offset >= 0 /\ Content[i].offset + Content[i].size <= HeapBytes
    /\ SumSizes(Content) <= HeapBytes

\* a free region that ends at the end of a two-page heap, after a release
C5_Witness ==
    /\ used_pages = 2 /\ last.op = "dealloc" /\ Live # {}
    /\ \E i \in 1 .. Len(Content) : Content[i].offset + Content[i].size = HeapBytes

\* C6: every free-list node has a header-aligned base and a size that is a
\* positive multiple of the header size.
C6_HeaderUnits ==
    \A i \in 1 .. Len(Content) :
        /\ (base_page * PAGE_SIZE + Content[i].offset) % NODE_SIZE = 0
        /\ Content[i].size % NODE_SIZE = 0
        /\ Content[i].size >= NODE_SIZE

\* an alloc that left a tail sliver of one header in front of a shrunk node
C6_Witness ==
    /\ last.op = "alloc" /\ last.grows = <<>> /\ Len(Content) >= 2
    /\ Content[1].size = NODE_SIZE
    /\ Content[1].offset = last.ptr - base_page * PAGE_SIZE + full_size(last.size)

\* the last growth call of call c returned the failure sentinel
GrowthFailed(c) ==
    /\ c.grows # <<>>
    /\ c.grows[Len(c.grows)].previous_page_count = ERROR_PAGE_COUNT

Ceil(a, b) == (a + b - 1) \div b

StatedFit(n, size, alignment) ==
    LET B == base_page * PAGE_SIZE + n.offset
        S == n.size
    IN  /\ ~(size > B + S)
        /\ multiple_below(B + S - size, alignment) >= B

RECURSIVE GrownPages(_)
GrownPages(g) ==
    IF g = <<>> THEN 0
    ELSE (IF Head(g).previous_page_count = ERROR_PAGE_COUNT THEN 0 ELSE Head(g).delta)
         + GrownPages(Tail(g))

\* C11: the committed page count never decreases; a release leaves it
\* unchanged and an alloc adds exactly the pages of its successful growth
\* calls.
C11_PagesMonotone ==
    [][/\ used_pages' >= used_pages
       /\ last'.op = "dealloc" => used_pages' = used_pages
       /\ last'.op = "alloc" => used_pages' = used_pages + GrownPages(last'.grows)]_vars

\* a release in a two-page heap, and an alloc whose growth call failed
C11_Witness ==
    /\ used_pages = 2
    /\ \/ last.op = "dealloc"
       \/ last.op = "alloc" /\ GrowthFailed(last)

FreeBytes == SumSizes(Content)

Fitting(size, alignment) ==
    { i \in 1 .. Len(Content) : StatedFit(Content[i], size, alignment) }

\* C20: an alloc served from the free list uses the first region in list
\* order that passes the fit test, and returns the greatest multiple of
\* max(align, NODE_SIZE) that is at most end - need of that region.
C20_FirstFitFromTail ==
    [][(last'.op = "alloc" /\ last'.grows = <<>>)
         => LET size      == full_size(last'.size)
                alignment == Max(last'.align, NODE_SIZE)
                fits      == Fitting(size, alignment)
            IN  /\ fits # {}
                /\ LET i    == CHOOSE j \in fits : \A k \in fits : j <= k
                       base == base_page * PAGE_SIZE + Content[i].offset
                       end  == base + Content[i].size
                   IN  /\ last'.ptr % alignment = 0
                       /\ last'.ptr <= end - size
                       /\ last'.ptr + alignment > end - size
                       /\ last'.ptr >= base]_vars

\* an alloc served from the second region of the list: a free region too
\* small for it lies above the bytes it was given
C20_Witness ==
    /\ last.op = "alloc" /\ last.grows = <<>> /\ last.ptr # null_mut
    /\ \E i \in 1 .. Len(Content) :
         /\ base_page * PAGE_SIZE + Content[i].offset > last.ptr + full_size(last.size)
         /\ Content[i].size < full_size(last.size)

\* every step of a walk goes to a strictly lower address
Descending(visits) ==
    \A i \in 1 .. Len(visits) - 1 : visits[i + 1] < visits[i]

\* the next pointers lead from every listed node to a lower node or to the
\* empty sentinel, so the list is finite and has no cycle
WellFounded ==
    /\ free_list = EMPTY_FREE_LIST \/ free_list \in DOMAIN node
    /\ \A a \in DOMAIN node :
         \/ node[a].next = EMPTY_FREE_LIST
         \/ node[a].next \in DOMAIN node /\ node[a].next < a

\* C18: alloc and dealloc terminate on a well-formed state: the walk of the
\* free list goes to a strictly lower node at each step, so it looks at each
\* node at most once and ends at the empty sentinel; alloc makes at most two
\* growth calls before it returns an address of the heap or null; the
\* state a call leaves is well-formed again.
C18_Terminates ==
    [][/\ WellFounded'
       /\ last'.op = "alloc" =>
            LET visits == alloc_visits(State, HeadSlot, full_size(last'.size),
                                       Max(last'.align, NODE_SIZE))
            IN  /\ Descending(visits)
                /\ Len(visits) <= Len(Content)
                /\ Len(last'.grows) <= 2
                /\ \/ last'.ptr = null_mut
                   \/ /\ last'.ptr >= base_page * PAGE_SIZE
                      /\ last'.ptr < (base_page + used_pages') * PAGE_SIZE
       /\ last'.op = "dealloc" =>
            LET visits == dealloc_visits(State, HeadSlot, last'.ptr,
                                         full_size(last'.size))
            IN  /\ Descending(visits)
                /\ Len(visits) <= Len(Content)]_vars

\* an alloc that walked a list of several nodes, found no fit and took the
\* growth path
C18_Witness ==
    /\ last.op = "alloc" /\ last.grows # <<>> /\ last.ptr # null_mut
    /\ Len(Content) >= 2

\* the block of one header at offset k * NODE_SIZE
Block(k) == [size |-> NODE_SIZE, offset |-> k * NODE_SIZE]

\* the call was the release of the block of one header at offset k * NODE_SIZE
Released(c, k) ==
    /\ c.op = "dealloc" /\ c.size = NODE_SIZE
    /\ c.ptr = base_page * PAGE_SIZE + k * NODE_SIZE

\* C19 as stated: from [{H, 3H}, {H, H}], releasing the block at 2H gives
\* [{4H, 0}].
C19_BridgeGivesFourHeaders ==
    [][(Content = <<Block(3), Block(1)>> /\ Released(last', 2))
         => Content' = <<[size |-> 4 * NODE_SIZE, offset |-> 0]>>]_vars

\* C19 amended: from [{H, 3H}, {H, H}], built by two releases on an empty
\* allocator, releasing the block at 2H gives [{3H, H}]; it gives
\* [{4H, 0}] from [{H, 3H}, {2H, 0}], where offset 0 was released too.
C19_BridgeMergesBothNeighbours ==
    [][/\ (Content = <<Block(3), Block(1)>> /\ Released(last', 2))
            => Content' = <<[size |-> 3 * NODE_SIZE, offset |-> NODE_SIZE]>>
       /\ (Content = <<Block(3), [size |-> 2 * NODE_SIZE, offset |-> 0]>>
            /\ Released(last', 2))
            => Content' = <<[size |-> 4 * NODE_SIZE, offset |-> 0]>>]_vars

\* the release of the block at 2H after the two releases at 3H and H, with
\* the block at offset 0 still held
C19_Witness ==
    /\ Released(last, 2)
    /\ BagCardinality(allocations) = HandBlocks - 3
    /\ \E a \in Live : a.ptr = base_page * PAGE_SIZE
    /\ Content = <<[size |-> 3 * NODE_SIZE, offset |-> NODE_SIZE]>>

\* the thread is executing inside the inner allocator's alloc or dealloc
Inside(t) == thread[t].pc = "inner"

\* C12: at most one thread at a time is inside the inner allocator, and a
\* thread is inside only while it holds the guard of the locked mutex.
C12_OneThreadInside ==
    /\ Cardinality({ t \in Threads : Inside(t) }) <= 1
    /\ \A t \in Threads : Inside(t) => (thread[t].guard /\ spin = TRUE)
    /\ Cardinality({ t \in Threads : thread[t].guard }) <= 1

\* one thread is inside the inner allocator while another spins for the lock
C12_Witness ==
    \E t, u \in Threads : Inside(t) /\ thread[u].pc = "lock"

\* the memory a call leaves, with only the listed headers kept
Norm(st) == [st EXCEPT !.node = Listed(st)]

\* the step is thread t's inner call returning with the result and the
\* memory of the same call made on the memory as it was just before
Sequential(t) ==
    LET c == thread[t].call
    IN  IF c.op = "alloc"
        THEN LET r == alloc(State, c.size, c.align)
             IN  /\ State' = Norm(r.st)
                 /\ thread'[t].call.ptr = r.ptr
                 /\ thread'[t].call.grows = r.grows
        ELSE State' = Norm(dealloc(State, c.ptr, c.size, c.align))

\* C13: every call takes effect as one step of the sequential allocator, in
\* the order in which the lock is held: the inner call that returns has
\* the result and leaves the memory of the sequential call on the memory
\* before it, and nothing else changes the memory; live allocations (of
\* different threads too) never overlap, and the free-list invariants hold
\* whenever the lock is free.
C13_LinearizableInLockOrder ==
    [][/\ \A t \in Threads :
            (Inside(t) /\ thread'[t].pc = "unlock") => Sequential(t)
       /\ State' # State =>
            \E t \in Threads : Inside(t) /\ thread[t].guard /\ thread'[t].pc = "unlock"
       /\ \A a, b \in BagToSet(allocations') :
            a # b => (a.ptr + need(a) <= b.ptr \/ b.ptr + need(b) <= a.ptr)
       /\ \A a \in BagToSet(allocations') : CopiesIn(a, allocations') = 1
       /\ spin' = FALSE =>
            (C4_DescendingApart /\ C5_WithinHeap /\ C6_HeaderUnits /\ WellFounded)']_vars

\* the two threads hold allocations that touch, and the lock is free
C13_Witness ==
    /\ spin = FALSE
    /\ \E a, b \in Live : a.owner # b.owner /\ a.ptr + need(a) = b.ptr

\* C14: a call that returns has released the lock, on every path (an alloc
\* that returns null after a failed growth too): when a thread comes back
\* from its call the flag is false and no thread holds a guard, so a
\* thread that spins for the lock can take it.
C14_ReturnReleasesLock ==
    [][\A t \in Threads :
         (thread[t].pc # "idle" /\ thread'[t].pc = "idle")
           => /\ spin' = FALSE
              /\ \A u \in Threads : ~thread'[u].guard
              /\ \A u \in Threads : thread'[u].pc = "lock" => try_lock(spin')]_vars

\* an alloc has returned null because growth failed, the flag is false and
\* another thread spins for the lock
C14_Witness ==
    /\ last.op = "alloc" /\ last.ptr = null_mut /\ GrowthFailed(last)
    /\ spin = FALSE
    /\ \E u \in Threads : thread[u].pc = "lock"

\* indexes in `given` of the allocations of one allocator
GivenBy(who) == { i \in 1 .. Len(given) : given[i].by = who }

\* indexes of the pages that hold bytes of [ptr, ptr + size)
PagesOf(a) ==
    IF a.size = 0 THEN {}
    ELSE (a.ptr \div PAGE_SIZE) .. ((a.ptr + a.size - 1) \div PAGE_SIZE)

\* C15: with other code growing the memory between the calls, the ranges
\* [start, start + size) LeakingAllocator has returned are pairwise
\* disjoint and lie in pages that its own growth calls appended.
C15_BumpRangesOwnPages ==
    /\ \A i, j \in GivenBy("LeakingAllocator") :
         i < j => \/ given[i].ptr + given[i].size <= given[j].ptr
                  \/ given[j].ptr + given[j].size <= given[i].ptr
    /\ \A i \in GivenBy("LeakingAllocator") : \A k \in PagesOf(given[i]) :
         k + 1 \in DOMAIN pages /\ pages[k + 1] = "LeakingAllocator"

\* an allocation of LeakingAllocator in a page it appended after pages that
\* other code appended after an earlier page of its own
C15_Witness ==
    \E i \in GivenBy("LeakingAllocator") : \E p, q \in DOMAIN pages :
        /\ p < q /\ q < (given[i].ptr \div PAGE_SIZE) + 1
        /\ pages[p] = "LeakingAllocator"
        /\ pages[q] \in {"foreign", "LeakingPageAllocator"}
        /\ given[i].size > 0

\* the page range [ptr, ptr + ceil(size / PAGE_SIZE) pages) of an allocation
PageEnd(a) == a.ptr + Ceil(a.size, PAGE_SIZE) * PAGE_SIZE

\* C17: LeakingPageAllocator's alloc makes exactly one growth call, of
\* ceil(size / PAGE_SIZE) pages, and returns the previous page count times
\* PAGE_SIZE, or null when the call returned the sentinel; the address is
\* page-aligned, allocations of non-zero size have disjoint page ranges,
\* and dealloc changes nothing.
C17_PageAllocOneGrowth ==
    [][/\ last'.op = "page_alloc" =>
            /\ Len(last'.grows) = 1
            /\ last'.grows[1].delta = Ceil(last'.size, PAGE_SIZE)
            /\ IF last'.grows[1].previous_page_count = ERROR_PAGE_COUNT
               THEN last'.ptr = null_mut /\ pages' = pages /\ given' = given
               ELSE /\ last'.grows[1].previous_page_count = Len(pages)
                    /\ last'.ptr = Len(pages) * PAGE_SIZE
                    /\ Len(pages') = Len(pages) + Ceil(last'.size, PAGE_SIZE)
            /\ last'.ptr % PAGE_SIZE = 0
       /\ last'.op = "page_dealloc" =>
            (pages' = pages /\ leaking' = leaking /\ given' = given)
       /\ \A i, j \in GivenBy("LeakingPageAllocator")' :
            (i < j /\ given'[i].size > 0 /\ given'[j].size > 0)
              => (PageEnd(given'[i]) <= given'[j].ptr \/ PageEnd(given'[j]) <= given'[i].ptr)]_vars

\* a page allocation right after a two-page allocation of PAGE_SIZE + 1 bytes
C17_Witness ==
    \E i, j \in GivenBy("LeakingPageAllocator") :
        /\ given[i].size = PAGE_SIZE + 1 /\ given[j].size > 0
        /\ given[j].ptr = given[i].ptr + 2 * PAGE_SIZE

\* the index in the list c of the region that holds the address p
RegionOf(c, p) ==
    CHOOSE i \in 1 .. Len(c) :
        /\ base_page * PAGE_SIZE + c[i].offset <= p
        /\ p < base_page * PAGE_SIZE + c[i].offset + c[i].size

\* what is left of the region n after [p, p + size) is taken from it: the
\* tail sliver, then the head
Remains(n, p, size) ==
    LET B == base_page * PAGE_SIZE + n.offset
        E == B + n.size
    IN  (IF p + size < E
         THEN <<[size |-> E - (p + size), offset |-> n.offset + (p + size - B)]>>
         ELSE <<>>)
        \o (IF p > B THEN <<[size |-> p - B, offset |-> n.offset]>> ELSE <<>>)

\* C21: an alloc served from the free list replaces the region it used by
\* the tail sliver (if any) followed by the head (if any) and leaves every
\* other node, and the order of the nodes, as they were.
C21_CarveFrame ==
    [][(last'.op = "alloc" /\ last'.grows = <<>>)
         => /\ \E i \in 1 .. Len(Content) :
                  /\ base_page * PAGE_SIZE + Content[i].offset <= last'.ptr
                  /\ last'.ptr + full_size(last'.size)
                       <= base_page * PAGE_SIZE + Content[i].offset + Content[i].size
            /\ LET i == RegionOf(Content, last'.ptr)
               IN  Content' = SubSeq(Content, 1, i - 1)
                              \o Remains(Content[i], last'.ptr, full_size(last'.size))
                              \o SubSeq(Content, i + 1, Len(Content))]_vars

\* an alloc that left a sliver and a head, below a free region it passed
C21_Witness ==
    /\ last.op = "alloc" /\ last.grows = <<>> /\ Len(Content) >= 3
    /\ \E k \in 2 .. Len(Content) - 1 :
         /\ base_page * PAGE_SIZE + Content[k].offset = last.ptr + full_size(last.size)
         /\ base_page * PAGE_SIZE + Content[k + 1].offset + Content[k + 1].size = last.ptr

\* absolute base and end of the region n of the list
Base(n) == base_page * PAGE_SIZE + n.offset
End(n) == Base(n) + n.size

\* C22: a release of [p, p + need) between a free node that starts at
\* p + need and a free node that ends at p leaves one node with the lower
\* node's base and the three sizes added; the list is one node shorter and
\* its other nodes are unchanged.
C22_ThreeWayMerge ==
    [][\A i \in 1 .. Len(Content) - 1 :
         (/\ last'.op = "dealloc"
          /\ Base(Content[i]) = last'.ptr + full_size(last'.size)
          /\ End(Content[i + 1]) = last'.ptr)
           => Content' = SubSeq(Content, 1, i - 1)
                         \o <<[size   |-> Content[i + 1].size + full_size(last'.size)
                                           + Content[i].size,
                                offset |-> Content[i + 1].offset]>>
                         \o SubSeq(Content, i + 2, Len(Content))]_vars

\* a release that bridged two free regions, with another free region that
\* it left alone
C22_Witness ==
    /\ last.op = "dealloc" /\ Len(Content) >= 2
    /\ \E i \in 1 .. Len(Content) :
         /\ Base(Content[i]) < last.ptr
         /\ last.ptr + full_size(last.size) < End(Content[i])

\* the maximal runs of bytes below `top` that are in no allocation of S,
\* from the highest down, as the list would hold them
RECURSIVE FreeRuns(_, _)
FreeRuns(top, S) ==
    IF S = {}
    THEN IF top > base_page * PAGE_SIZE
         THEN <<[size |-> top - base_page * PAGE_SIZE, offset |-> 0]>>
         ELSE <<>>
    ELSE LET a == CHOOSE x \in S : \A y \in S : y.ptr <= x.ptr
         IN  (IF a.ptr + need(a) < top
              THEN <<[size   |-> top - (a.ptr + need(a)),
                      offset |-> a.ptr + need(a) - base_page * PAGE_SIZE]>>
              ELSE <<>>)
             \o FreeRuns(a.ptr, S \ {a})

RECURSIVE LiveBytes(_)
LiveBytes(S) ==
    IF S = {} THEN 0
    ELSE LET a == CHOOSE x \in S : TRUE IN need(a) + LiveBytes(S \ {a})

Extended(c, added) ==
    IF added = 0 THEN c
    ELSE IF c # <<>> /\ c[1].offset + c[1].size = HeapBytes
    THEN <<[size |-> c[1].size + added, offset |-> c[1].offset]>> \o Tail(c)
    ELSE <<[size |-> added, offset |-> HeapBytes]>> \o c

\* the list after the release, right after the step, of what the step's
\* alloc returned, with the layout of the alloc
ReleasedAgain ==
    LET post == [free_list |-> free_list', node |-> node',
                 used_pages |-> used_pages', base_page |-> base_page']
    IN  free_list_content(dealloc(post, last'.ptr, last'.size, last'.align))

\* C24: an alloc that did not fail, followed at once by the release of its
\* address with the same layout, gives back the list of before the alloc
\* when the alloc did not grow the heap, and that list with the appended
\* pages added and coalesced when it did.
C24_AllocReleaseRoundTrip ==
    [][(last'.op = "alloc" /\ ~GrowthFailed(last'))
         => ReleasedAgain = Extended(Content, GrownPages(last'.grows) * PAGE_SIZE)]_vars

\* an alloc served from the free list that took a whole node, which it
\* unlinked, with other nodes in the list
C24_Witness ==
    /\ last.op = "alloc" /\ last.grows = <<>> /\ last.ptr # null_mut
    /\ Content # <<>>
    /\ \A i \in 1 .. Len(Content) :
         /\ End(Content[i]) # last.ptr
         /\ Base(Content[i]) # last.ptr + full_size(last.size)

C26_EffectiveRequest ==
    last.op = "full_size" =>
        LET least == CHOOSE m \in 1 .. MaxSize + NODE_SIZE :
                        /\ m % NODE_SIZE = 0
                        /\ m >= last.size /\ m >= NODE_SIZE
                        /\ \A k \in 1 .. m - 1 :
                             ~(k % NODE_SIZE = 0 /\ k >= last.size /\ k >= NODE_SIZE)
        IN  /\ last.alloc_size = least
            /\ last.dealloc_size = last.alloc_size
            /\ last.alloc_alignment >= last.align
            /\ last.alloc_alignment >= NODE_SIZE
            /\ last.alloc_alignment \in {last.align, NODE_SIZE}

\* the effective request of a size that is two headers already
C26_Witness ==
    /\ last.op = "full_size" /\ last.size = 2 * NODE_SIZE
    /\ last.alloc_size = 2 * NODE_SIZE

\* C27: after every alloc of LeakingAllocator, failed ones too, used <= size;
\* used never decreases; an alloc that did not fail returns a start that is
\* a multiple of align with start + requested size <= size.
C27_BumpWithinSize ==
    [][/\ leaking'.used >= leaking.used
       /\ leaking'.used <= leaking'.size
       /\ (last'.op = "leaking_alloc" /\ ~GrowthFailed(last'))
            => /\ last'.ptr % last'.align = 0
               /\ last'.ptr + last'.size <= leaking'.size
               /\ leaking'.used = last'.ptr + last'.size]_vars

\* a failed alloc that had moved used up to a page boundary, the end of the
\* allocator's extent
C27_Witness ==
    /\ last.op = "leaking_alloc" /\ GrowthFailed(last) /\ last.align = PAGE_SIZE
    /\ leaking.size > 0 /\ leaking.used = leaking.size
    /\ \E i \in GivenBy("LeakingAllocator") : given[i].size = 1

\* threads that spin for the lock
Waiting == { t \in Threads : thread[t].pc = "lock" }

\* some thread in a call can take a step
CallCanStep ==
    ENABLED (LockAcquireStep \/ InnerEnterStep \/ InnerReturnStep \/ LockedReturnStep)

\* C28: no execution deadlocks: while a call is in progress some call can
\* take a step (the growth path of alloc runs inside the inner call and
\* takes no lock); under fair scheduling, when a thread spins while the
\* lock is held the holder releases the lock, and when a thread spins while
\* the lock is free some spinning thread takes it.
C28_NoDeadlockLockHandedOn ==
    /\ []((\E t \in Threads : thread[t].pc # "idle") => CallCanStep)
    /\ (Waiting # {} /\ spin = TRUE) ~> (spin = FALSE)
    /\ (Waiting # {} /\ spin = FALSE) ~> (\E t \in Threads : thread[t].pc = "enter")

\* a thread has taken the lock after a call that grew the heap returned,
\* while another thread spins
C28_Witness ==
    /\ last.op = "alloc" /\ last.grows # <<>>
    /\ \E t, u \in Threads : thread[t].pc = "enter" /\ thread[u].pc = "lock"

====
